---- MODULE Spec2Model ----
(***************************************************************************)
(* A model of the CliniWise frontend: the conversation page (its state,    *)
(* its hydration fetch, submit and the EventSource message stream it       *)
(* opens) and the landing page's document selector (useDocumentSelector,   *)
(* getAllGuidelines).                                                      *)
(*                                                                         *)
(* Handlers of the page read the state of the latest committed render:     *)
(* every update made in a click or keydown handler is committed, and the   *)
(* effects that depend on it are re-run, before the next listener or       *)
(* event runs.  Each handler is therefore one atomic action.               *)
(***************************************************************************)
EXTENDS Integers, Sequences, FiniteSets, TLC

VARIABLES
    mounted,            \* a Conversation page instance is mounted
    inst,               \* number of the current (or last) page instance
    conversationId,     \* useState<string | null>(null)
    isMessagePending,   \* useState(false)
    userMessage,        \* useState("")
    selectedDocuments,  \* useState<ClinicalDocument[]>([]) of the page
    messages,           \* the transcript held by useMessages
    fetches,            \* fetchConversation calls in flight
    streams,            \* every EventSource created by submit, in order
    seen,               \* history: the identifiers that entered the current
                        \* transcript, in the order of their first occurrence
    viewports,          \* usePDFViewer state of each rendered ViewPdf, by key
    availableDocuments, \* useDocumentSelector state
    availableGuidelines,
    selectedGuideline,
    isLoading,
    documentsFetch,     \* fetchDocuments: "pending", "done" or "failed"
    isLoadingConversation, \* useState(false) of TitleAndDropdown
    createCalls,        \* every backendClient.createConversation call, in order
    consoleErrors,      \* the messages passed to console.error so far
    utilCall            \* a call of a utility function: arguments, result

selVars == <<availableDocuments, availableGuidelines, selectedGuideline,
             isLoading, documentsFetch>>
landVars == <<isLoadingConversation, createCalls>>
utilVars == <<utilCall>>
pageVars == <<mounted, inst, conversationId, isMessagePending, userMessage,
              selectedDocuments, messages, fetches, streams, seen, viewports>>
vars == <<mounted, inst, conversationId, isMessagePending, userMessage,
          selectedDocuments, messages, fetches, streams, seen, viewports,
          availableDocuments, availableGuidelines, selectedGuideline,
          isLoading, documentsFetch, isLoadingConversation, createCalls,
          consoleErrors, utilCall>>

----------------------------------------------------------------------------
(* Bounds of the model *)

MaxConv == 2
MaxMounts == 2
MaxStreams == 2
MaxMsgs == 3
MaxSubs == 3
MaxDocs == 2

(* Values *)

NoConv == 0
NoPage == -1
ConvIds == 1..MaxConv
Texts == {"q"}
UserIds == <<"u1", "u2", "u3", "u4", "u5">>
MsgIds == {"m1", "m2"}
MESSAGE_STATUS == {"PENDING", "SUCCESS", "ERROR"}

Range(s) == {s[i] : i \in DOMAIN s}

SeqsUpTo(S, n) == UNION {[1..k -> S] : k \in 0..n}

Ids(seq) == [i \in DOMAIN seq |-> seq[i].id]

IsTerminal(status) == status \in {"SUCCESS", "ERROR"}

----------------------------------------------------------------------------
(* The transcript reducer of useMessages *)

IndexOfId(seq, id) ==
    IF \E i \in DOMAIN seq : seq[i].id = id
    THEN CHOOSE i \in DOMAIN seq :
             /\ seq[i].id = id
             /\ \A j \in DOMAIN seq : seq[j].id = id => i <= j
    ELSE 0

\* one incoming sub-process entry: replace by identifier, else append
MergeSub(recorded, e) ==
    IF e.id # "null" /\ IndexOfId(recorded, e.id) # 0
    THEN [recorded EXCEPT ![IndexOfId(recorded, e.id)] = e]
    ELSE Append(recorded, e)

RECURSIVE MergeSubs(_, _)
MergeSubs(recorded, incoming) ==
    IF incoming = <<>> THEN recorded
    ELSE MergeSubs(MergeSub(recorded, Head(incoming)), Tail(incoming))

\* a reducer that never looks for the identifier
systemSendMessageAppendOnly(msgs, message) == Append(msgs, message)

\* a reducer that overwrites the recorded message with the snapshot
systemSendMessageOverwrite(msgs, message) ==
    LET i == IndexOfId(msgs, message.id) IN
    IF i # 0 THEN [msgs EXCEPT ![i] = message] ELSE Append(msgs, message)

systemSendMessage(msgs, message) ==
    LET i == IndexOfId(msgs, message.id) IN
    IF i # 0
    THEN [msgs EXCEPT ![i] = [@ EXCEPT !.content = message.content,
                                       !.status = message.status,
                                       !.sub_processes =
                                           MergeSubs(@, message.sub_processes)]]
    ELSE Append(msgs, message)

userSendMessage(msgs, content, uid) ==
    Append(msgs, [id |-> uid, role |-> "user", status |-> "PENDING",
                  content |-> content, sub_processes |-> <<>>])

----------------------------------------------------------------------------
(* The conversation page *)

NewStream(conv, text, owner) ==
    [conv |-> conv, user_message |-> text, inst |-> owner,
     readyState |-> "CONNECTING",
     closes |-> 0,            \* calls of events.close()
     terminalSeen |-> FALSE,  \* onmessage has handled a SUCCESS or ERROR event
     handledAfter |-> FALSE,  \* onmessage has handled an event after that one
     dropped |-> FALSE]       \* the server sent an event after the close

\* the page instance that created stream s is still the mounted one
Live(s) == mounted /\ streams[s].inst = inst

\* the hook state of a ViewPdf that has just been mounted
DefaultViewport ==
    [scrolledIndex |-> 0, numPages |-> 0, scaleFit |-> TRUE,
     pendingPage |-> NoPage]

\* ViewPdf elements without keys: an instance that is already there is
\* reused for a document that comes in
renderPdfViewerReusing(current, documents) ==
    [k \in {documents[i].id : i \in DOMAIN documents} |->
        IF k \in DOMAIN current THEN current[k]
        ELSE IF DOMAIN current # {}
        THEN current[CHOOSE j \in DOMAIN current : TRUE]
        ELSE DefaultViewport]

\* selectedDocuments.map(doc => <ViewPdf key={doc.id} file={doc} />): a key
\* that stays keeps its instance and state, a new key mounts a new instance,
\* a key that went is unmounted
renderPdfViewer(current, documents) ==
    [k \in {documents[i].id : i \in DOMAIN documents} |->
        IF k \in DOMAIN current THEN current[k] ELSE DefaultViewport]

PageDefaults ==
    /\ conversationId' = NoConv
    /\ isMessagePending' = FALSE
    /\ userMessage' = ""
    /\ selectedDocuments' = <<>>
    /\ messages' = <<>>
    /\ seen' = <<>>
    /\ viewports' = renderPdfViewer(viewports, <<>>)

OpenPage ==
    /\ ~mounted
    /\ inst < MaxMounts
    /\ mounted' = TRUE
    /\ inst' = inst + 1
    /\ PageDefaults
    /\ UNCHANGED <<fetches, streams>>
    /\ UNCHANGED <<selVars, landVars, utilVars>>
    /\ UNCHANGED consoleErrors

\* router.push("/")
LeavePage ==
    /\ mounted
    /\ mounted' = FALSE
    /\ PageDefaults
    /\ UNCHANGED <<inst, fetches, streams>>
    /\ UNCHANGED <<selVars, landVars, utilVars>>
    /\ UNCHANGED consoleErrors

\* router.query.id becomes c: the id effect sets conversationId and the
\* hydration effect, which depends on it, starts fetchConversation(c)
RouteId(c) ==
    /\ mounted
    /\ c # conversationId
    /\ conversationId' = c
    /\ fetches' = fetches \cup {[inst |-> inst, conv |-> c]}
    /\ UNCHANGED <<mounted, inst, isMessagePending, userMessage,
                   selectedDocuments, messages, streams, seen>>
    /\ UNCHANGED <<selVars, landVars, utilVars, viewports>>
    /\ UNCHANGED consoleErrors

FetchOk(f, result) ==
    /\ f \in fetches
    /\ fetches' = fetches \ {f}
    /\ IF mounted /\ f.inst = inst
       THEN /\ messages' = IF result.hasMessages THEN result.messages
                           ELSE messages
            /\ seen' = IF result.hasMessages THEN Ids(result.messages)
                       ELSE seen
            /\ selectedDocuments' = IF result.hasDocuments
                                    THEN result.documents
                                    ELSE selectedDocuments
            /\ viewports' = IF result.hasDocuments
                            THEN renderPdfViewer(viewports, result.documents)
                            ELSE viewports
       ELSE UNCHANGED <<messages, selectedDocuments, seen, viewports>>
    /\ UNCHANGED <<mounted, inst, conversationId, isMessagePending,
                   userMessage, streams>>
    /\ UNCHANGED <<selVars, landVars, utilVars>>
    /\ UNCHANGED consoleErrors

\* a catch block that only logs, as the one of fetchDocuments does
FetchFailLogOnly(f) ==
    /\ f \in fetches
    /\ fetches' = fetches \ {f}
    /\ consoleErrors' = consoleErrors \cup {"Failed to fetch conversation:"}
    /\ UNCHANGED <<mounted, inst, conversationId, isMessagePending,
                   userMessage, selectedDocuments, messages, streams, seen>>
    /\ UNCHANGED <<selVars, landVars, utilVars, viewports>>

\* fetchConversation rejects: console.error, then router.push("/")
FetchFail(f) ==
    /\ f \in fetches
    /\ fetches' = fetches \ {f}
    /\ consoleErrors' = consoleErrors \cup {"Failed to fetch conversation:"}
    /\ IF mounted
       THEN mounted' = FALSE /\ PageDefaults
       ELSE UNCHANGED <<mounted, conversationId, isMessagePending,
                        userMessage, selectedDocuments, messages, seen,
                        viewports>>
    /\ UNCHANGED <<inst, streams>>
    /\ UNCHANGED <<selVars, landVars, utilVars>>

handleTextChange(t) ==
    /\ mounted
    /\ ~isMessagePending
    /\ t # userMessage
    /\ userMessage' = t
    /\ UNCHANGED <<mounted, inst, conversationId, isMessagePending,
                   selectedDocuments, messages, fetches, streams, seen>>
    /\ UNCHANGED <<selVars, landVars, utilVars, viewports>>
    /\ UNCHANGED consoleErrors

\* a submit without its guard
submitRunsAlways == TRUE

\* if (!userMessage || !conversationId) return
submitRuns == userMessage # "" /\ conversationId # NoConv

submit ==
    IF submitRuns
    THEN /\ Len(streams) < MaxStreams
         /\ Len(messages) < MaxMsgs
         /\ isMessagePending' = TRUE
         /\ messages' = userSendMessage(messages, userMessage,
                                        UserIds[Len(streams) + 1])
         /\ seen' = Append(seen, UserIds[Len(streams) + 1])
         /\ userMessage' = ""
         /\ streams' = Append(streams,
                              NewStream(conversationId, userMessage, inst))
         /\ UNCHANGED <<mounted, inst, conversationId, selectedDocuments,
                        fetches>>
         /\ UNCHANGED <<selVars, landVars, utilVars, viewports>>
         /\ UNCHANGED consoleErrors
    ELSE UNCHANGED vars

ClickSend ==
    /\ mounted
    /\ ~(isMessagePending \/ userMessage = "")
    /\ submit

TextareaEnter ==
    /\ mounted
    /\ ~isMessagePending
    /\ submit
    \* the same keydown then reaches the document listener of the new render
    /\ isMessagePending' \/ ~submitRuns'

DocumentEnter ==
    /\ mounted
    /\ ~isMessagePending
    /\ submit

ConnOpen(s) ==
    /\ streams[s].readyState = "CONNECTING"
    /\ streams' = [streams EXCEPT ![s].readyState = "OPEN"]
    /\ UNCHANGED <<mounted, inst, conversationId, isMessagePending,
                   userMessage, selectedDocuments, messages, fetches, seen>>
    /\ UNCHANGED <<selVars, landVars, utilVars, viewports>>
    /\ UNCHANGED consoleErrors

ConnLost(s) ==
    /\ streams[s].readyState = "OPEN"
    /\ streams' = [streams EXCEPT ![s].readyState = "CONNECTING"]
    /\ UNCHANGED <<mounted, inst, conversationId, isMessagePending,
                   userMessage, selectedDocuments, messages, fetches, seen>>
    /\ UNCHANGED <<selVars, landVars, utilVars, viewports>>
    /\ UNCHANGED consoleErrors

ConnFail(s) ==
    /\ streams[s].readyState = "CONNECTING"
    /\ streams' = [streams EXCEPT ![s].readyState = "CLOSED"]
    /\ UNCHANGED <<mounted, inst, conversationId, isMessagePending,
                   userMessage, selectedDocuments, messages, fetches, seen>>
    /\ UNCHANGED <<selVars, landVars, utilVars, viewports>>
    /\ UNCHANGED consoleErrors

ParsedData(ev) ==
    [id |-> ev.id, role |-> "assistant", status |-> ev.status,
     content |-> ev.content, sub_processes |-> ev.sub_processes]

\* a handler that ends the turn on SUCCESS alone
onmessageClosesOnSuccessOnly(status) == status = "SUCCESS"

onmessageCloses(status) == IsTerminal(status)

\* the server sends ev on the connection of stream s
OnMessage(s, ev) ==
    LET parsedData == ParsedData(ev)
        merged == systemSendMessage(messages, parsedData) IN
    /\ \/ streams[s].readyState = "OPEN"
       \/ streams[s].readyState = "CLOSED" /\ streams[s].closes > 0
    /\ IF streams[s].readyState = "OPEN"
       THEN /\ Live(s) =>
                 /\ Len(merged) <= MaxMsgs
                 /\ \A i \in DOMAIN merged :
                        Len(merged[i].sub_processes) <= MaxSubs
            /\ messages' = IF Live(s) THEN merged ELSE messages
            /\ seen' = IF Live(s) /\ \A k \in DOMAIN seen : seen[k] # ev.id
                       THEN Append(seen, ev.id) ELSE seen
            /\ IF onmessageCloses(parsedData.status)
               THEN /\ streams' = [streams EXCEPT
                                     ![s].readyState = "CLOSED",
                                     ![s].closes = @ + 1,
                                     ![s].terminalSeen =
                                         @ \/ IsTerminal(parsedData.status),
                                     ![s].handledAfter =
                                         @ \/ streams[s].terminalSeen]
                    /\ isMessagePending' = IF Live(s) THEN FALSE
                                           ELSE isMessagePending
               ELSE /\ streams' = [streams EXCEPT
                                     ![s].terminalSeen =
                                         @ \/ IsTerminal(parsedData.status),
                                     ![s].handledAfter =
                                         @ \/ streams[s].terminalSeen]
                    /\ UNCHANGED isMessagePending
       ELSE \* a closed EventSource dispatches nothing
            /\ streams' = [streams EXCEPT ![s].dropped = TRUE]
            /\ UNCHANGED <<messages, isMessagePending, seen>>
    /\ UNCHANGED <<mounted, inst, conversationId, userMessage,
                   selectedDocuments, fetches>>
    /\ UNCHANGED <<selVars, landVars, utilVars, viewports>>
    /\ UNCHANGED consoleErrors

----------------------------------------------------------------------------
(* Inputs *)

StoredMessage ==
    [id |-> "m1", role |-> "assistant", status |-> "SUCCESS",
     content |-> "", sub_processes |-> <<>>]

ConvDoc ==
    [id |-> "d1", title |-> "T", issuingOrganization |-> "O",
     guidelineId |-> "g1", documentType |-> "clinical_guideline"]

\* what fetchConversation resolves to: messages and documents may be absent
FetchResults ==
    {[hasMessages |-> hm, messages |-> m, hasDocuments |-> hd, documents |-> d] :
        hm \in BOOLEAN, m \in {<<>>, <<StoredMessage>>},
        hd \in BOOLEAN, d \in {<<ConvDoc>>}}
     \ {r \in [hasMessages : BOOLEAN, messages : {<<StoredMessage>>},
               hasDocuments : BOOLEAN, documents : {<<ConvDoc>>}] :
            ~r.hasMessages}

Events ==
    [id : {"m1"}, status : MESSAGE_STATUS, content : {""},
     sub_processes : {<<>>}]

InitConv ==
    /\ mounted = TRUE
    /\ inst = 1
    /\ conversationId = NoConv
    /\ isMessagePending = FALSE
    /\ userMessage = ""
    /\ selectedDocuments = <<>>
    /\ messages = <<>>
    /\ fetches = {}
    /\ streams = <<>>
    /\ seen = <<>>
    /\ viewports = renderPdfViewer(<<>>, <<>>)

InitSel ==
    /\ availableDocuments = <<>>
    /\ availableGuidelines = <<>>
    /\ selectedGuideline = [present |-> FALSE]
    /\ isLoading = TRUE
    /\ documentsFetch = "pending"

InitLanding ==
    /\ isLoadingConversation = FALSE
    /\ createCalls = <<>>
    /\ consoleErrors = {}

\* no utility function is being called
NoCall == [fn |-> "none"]

InitPages == InitConv /\ InitSel /\ InitLanding

Init == InitPages /\ utilCall = NoCall

Next ==
    \/ OpenPage
    \/ LeavePage
    \/ \E c \in ConvIds : RouteId(c)
    \/ \E f \in fetches : \E r \in FetchResults : FetchOk(f, r)
    \/ \E f \in fetches : FetchFail(f)
    \/ \E t \in Texts \cup {""} : handleTextChange(t)
    \/ ClickSend
    \/ TextareaEnter
    \/ DocumentEnter
    \/ \E s \in DOMAIN streams : ConnOpen(s)
    \/ \E s \in DOMAIN streams : ConnLost(s)
    \/ \E s \in DOMAIN streams : ConnFail(s)
    \/ \E s \in DOMAIN streams : \E ev \in Events : OnMessage(s, ev)

Spec == Init /\ [][Next]_vars

----------------------------------------------------------------------------
(* One conversation, one page instance, and the events of a turn in        *)
(* progress, which carry sub-process lists.                                *)

\* an entry in flight has no identifier yet
SubEntries ==
    [id : {"a", "b"}, content : {"x", "y"}]
    \cup {[id |-> "null", content |-> "x"]}

\* a snapshot's sub-processes: rows of the backend, so no identifier twice
SubLists ==
    {<<>>} \cup {<<e>> : e \in SubEntries}
    \cup {<<e[1], e[2]>> :
             e \in {p \in SubEntries \X SubEntries :
                       p[1].id = p[2].id => p[1].id = "null"}}

RichEvents ==
    [id : {"m1"}, status : {"PENDING"}, content : {""},
     sub_processes : SubLists]

ReconNext ==
    \/ RouteId(1)
    \/ \E f \in fetches : \E r \in FetchResults : FetchOk(f, r)
    \/ \E t \in Texts \cup {""} : handleTextChange(t)
    \/ ClickSend
    \/ \E s \in DOMAIN streams : ConnOpen(s)
    \/ \E s \in DOMAIN streams : \E ev \in RichEvents : OnMessage(s, ev)

\* the same page, with events for several messages: a snapshot has no text
\* yet, or carries the answer with SUCCESS
TurnEvents ==
    {[id |-> id, status |-> status,
      content |-> IF status = "SUCCESS" THEN "t" ELSE "",
      sub_processes |-> <<>>] : id \in MsgIds, status \in MESSAGE_STATUS}

TurnNext ==
    \/ RouteId(1)
    \/ \E f \in fetches : \E r \in FetchResults : FetchOk(f, r)
    \/ \E t \in Texts \cup {""} : handleTextChange(t)
    \/ ClickSend
    \/ \E s \in DOMAIN streams : ConnOpen(s)
    \/ \E s \in DOMAIN streams : ConnLost(s)
    \/ \E s \in DOMAIN streams : ConnFail(s)
    \/ \E s \in DOMAIN streams : \E ev \in TurnEvents : OnMessage(s, ev)

TurnSpec == Init /\ [][TurnNext]_vars

\* one page instance: hydrating and leaving conversations, with one turn
\* submitted
HydrationNext ==
    \/ LeavePage
    \/ \E c \in ConvIds : RouteId(c)
    \/ \E f \in fetches : \E r \in FetchResults : FetchOk(f, r)
    \/ \E f \in fetches : FetchFail(f)
    \/ \E t \in Texts \cup {""} : handleTextChange(t)
    \/ ClickSend

HydrationSpec == Init /\ [][HydrationNext]_vars

\* one conversation, with every way the page has of calling submit
SubmitNext ==
    \/ RouteId(1)
    \/ \E f \in fetches : \E r \in FetchResults : FetchOk(f, r)
    \/ \E t \in Texts \cup {""} : handleTextChange(t)
    \/ ClickSend
    \/ TextareaEnter
    \/ DocumentEnter
    \/ \E s \in DOMAIN streams : ConnOpen(s)
    \/ \E s \in DOMAIN streams : \E ev \in Events : OnMessage(s, ev)

SubmitSpec == Init /\ [][SubmitNext]_vars

ReconSpec == Init /\ [][ReconNext]_vars

----------------------------------------------------------------------------
(* The landing page's document selector *)

DocumentType == {"clinical_guideline"}

createGuidelineOption(doc) ==
    [value |-> doc.id,
     label |-> <<doc.title, " - ", doc.issuingOrganization>>,
     document |-> doc]

\* Array.from(new Set(objects)): a Set of objects holds each reference once.
\* refs[i] is the reference of objects[i].
ArrayFromSet(objects, refs) ==
    LET first(i) == \A j \in 1..(i - 1) : refs[j] # refs[i]
        keep == {i \in DOMAIN objects : first(i)}
        RECURSIVE build(_)
        build(i) == IF i > Len(objects) THEN <<>>
                    ELSE IF i \in keep THEN <<objects[i]>> \o build(i + 1)
                    ELSE build(i + 1)
    IN build(1)

\* a resolver that returns its options sorted by label
getAllGuidelinesSortedByLabel(documents) ==
    LET options == [i \in DOMAIN documents |->
                       [value |-> documents[i].id,
                        label |-> <<documents[i].title, " - ",
                                    documents[i].issuingOrganization>>,
                        document |-> documents[i]]]
        titled(t) == LET is(o) == o.document.title = t
                     IN SelectSeq(options, is)
    IN titled("A") \o titled("B")

getAllGuidelines(documents) ==
    LET isGuideline(doc) == doc.documentType = "clinical_guideline"
        filtered == SelectSeq(documents, isGuideline)
        guidelines == [i \in DOMAIN filtered |->
                          createGuidelineOption(filtered[i])]
        \* every call of createGuidelineOption returns a new object
        refs == [i \in DOMAIN filtered |-> i]
    IN ArrayFromSet(guidelines, refs)

FetchDocumentsOk(documents) ==
    /\ documentsFetch = "pending"
    /\ availableDocuments' = documents
    /\ availableGuidelines' = getAllGuidelines(documents)
    /\ isLoading' = FALSE
    /\ documentsFetch' = "done"
    /\ UNCHANGED selectedGuideline
    /\ UNCHANGED <<pageVars, landVars, utilVars>>
    /\ UNCHANGED consoleErrors

FetchDocumentsFail ==
    /\ documentsFetch = "pending"
    /\ isLoading' = FALSE
    /\ documentsFetch' = "failed"
    /\ UNCHANGED <<availableDocuments, availableGuidelines, selectedGuideline>>
    /\ UNCHANGED <<pageVars, landVars, utilVars>>
    /\ consoleErrors' = consoleErrors \cup {"Error fetching documents:"}

handleGuidelineChange(guideline) ==
    /\ selectedGuideline # [present |-> TRUE, option |-> guideline]
    /\ selectedGuideline' = [present |-> TRUE, option |-> guideline]
    /\ UNCHANGED <<availableDocuments, availableGuidelines, isLoading,
                   documentsFetch>>
    /\ UNCHANGED <<pageVars, landVars, utilVars>>
    /\ UNCHANGED consoleErrors

\* a memo that matches on the guideline identifier only
selectedDocumentsByGuidelineIdOnly ==
    IF ~selectedGuideline.present THEN <<>>
    ELSE LET matches(doc) ==
                 /\ doc.documentType = "clinical_guideline"
                 /\ doc.guidelineId = selectedGuideline.option.value
         IN SelectSeq(availableDocuments, matches)

\* the selectedDocuments memo of useDocumentSelector
useDocumentSelector_selectedDocuments ==
    IF ~selectedGuideline.present THEN <<>>
    ELSE LET matches(doc) ==
                 /\ doc.documentType = "clinical_guideline"
                 /\ \/ doc.guidelineId = selectedGuideline.option.value
                    \/ doc.id = selectedGuideline.option.value
         IN SelectSeq(availableDocuments, matches)

DocIds == {"d1", "d2", "d3"}
\* a guideline identifier is any string: absent, shared, or equal to the
\* identifier of a document
GuidelineIds == {"none", "g1", "d1"}

Docs ==
    [id : DocIds, title : {"T"}, issuingOrganization : {"O"},
     guidelineId : GuidelineIds, documentType : DocumentType]

\* what fetchDocuments resolves to: rows of the backend, so no id twice
DocLists ==
    {l \in SeqsUpTo(Docs, MaxDocs) :
        \A i, j \in DOMAIN l : l[i].id = l[j].id => i = j}

SelectorNext ==
    \/ \E documents \in DocLists : FetchDocumentsOk(documents)
    \/ FetchDocumentsFail
    \/ \E g \in Range(availableGuidelines) : handleGuidelineChange(g)

SelectorSpec == Init /\ [][SelectorNext]_vars

\* only the network is certain to act: a fetch settles and a connection
\* attempt is answered; the user and the server's stream may stay silent
FairSpec ==
    /\ Spec
    /\ WF_vars(\E f \in fetches : \E r \in FetchResults : FetchOk(f, r))
    /\ WF_vars(\E s \in DOMAIN streams : ConnOpen(s) \/ ConnFail(s))

----------------------------------------------------------------------------
(* Claims about the message stream *)

StreamOpen(s) == streams[s].readyState # "CLOSED"

StreamBroken(s) ==
    streams[s].readyState = "CLOSED" /\ ~streams[s].terminalSeen

\* C1: for one conversation at most one stream opened by submit is open at
\* any time.
C1_OneStreamPerConversation ==
    \A s, t \in DOMAIN streams :
        (streams[s].conv = streams[t].conv /\ StreamOpen(s) /\ StreamOpen(t))
            => s = t

\* C2: when the conversation identifier changes or the page is left while a
\* stream of the page is open, that stream is closed in the same step, and
\* no later event of a stream of an abandoned conversation changes the
\* transcript.
C2_CancelOnIdChange ==
    [][/\ \A s \in DOMAIN streams :
            (StreamOpen(s) /\ Live(s) /\ streams[s].conv = conversationId
               /\ (conversationId' # conversationId \/ ~mounted'))
                => streams'[s].readyState = "CLOSED"
       /\ \A s \in DOMAIN streams : \A ev \in Events :
            (streams[s].conv # conversationId /\ OnMessage(s, ev))
                => messages' = messages]_vars

\* C3: the first SUCCESS or ERROR event of a stream is merged into the
\* transcript and the consumer closes the stream with it, exactly once; no
\* event is handled after it, and an event sent after the close changes
\* neither the transcript nor the pending flag.
C3_ClientEndsTurn ==
    /\ [](\A s \in DOMAIN streams :
            /\ streams[s].closes <= 1
            /\ streams[s].terminalSeen =>
                   streams[s].readyState = "CLOSED" /\ streams[s].closes = 1
            /\ ~streams[s].handledAfter)
    /\ [][\A s \in DOMAIN streams : \A ev \in TurnEvents :
            OnMessage(s, ev) =>
                IF streams[s].readyState = "OPEN"
                THEN (IsTerminal(ev.status) /\ Live(s)) =>
                        /\ ~isMessagePending'
                        /\ \E i \in DOMAIN messages' :
                               /\ messages'[i].id = ev.id
                               /\ messages'[i].status = ev.status
                ELSE /\ messages' = messages
                     /\ isMessagePending' = isMessagePending]_vars

\* a turn ended by its terminal event, after which the server sent more
C3_Witness ==
    \E s \in DOMAIN streams :
        /\ streams[s].terminalSeen
        /\ streams[s].closes = 1
        /\ streams[s].dropped
        /\ Live(s)
        /\ \E i \in DOMAIN messages : IsTerminal(messages[i].status)

\* C4: the transcript holds exactly one message per distinct identifier that
\* entered it, each at the position of its first occurrence; an event for an
\* identifier already present updates that message in place and changes
\* neither the length nor the order of the transcript.
C4_OneMessagePerId ==
    /\ [](mounted => Ids(messages) = seen)
    /\ [][\A s \in DOMAIN streams : \A ev \in TurnEvents :
            (/\ streams[s].readyState = "OPEN"
             /\ Live(s)
             /\ IndexOfId(messages, ev.id) # 0
             /\ OnMessage(s, ev))
              => LET i == IndexOfId(messages, ev.id) IN
                 /\ Len(messages') = Len(messages)
                 /\ Ids(messages') = Ids(messages)
                 /\ messages'[i].status = ev.status
                 /\ messages'[i].content = ev.content
                 /\ \A j \in DOMAIN messages :
                        j # i => messages'[j] = messages[j]]_vars

\* m1 was updated in place after m2 had been appended behind it
C4_Witness ==
    /\ mounted
    /\ Len(messages) = 3
    /\ messages[1].role = "user"
    /\ messages[2].id = "m1" /\ messages[2].status = "SUCCESS"
    /\ messages[3].id = "m2" /\ messages[3].status = "PENDING"

\* C5: an event for a message already in the transcript merges its
\* sub-process list into the recorded one: every recorded entry keeps its
\* position, an entry whose identifier matches an incoming entry takes that
\* entry's content, and the incoming entries that match no recorded entry
\* are appended in arrival order.
C5_SubProcessMerge ==
    [][\A s \in DOMAIN streams : \A ev \in RichEvents :
         (/\ streams[s].readyState = "OPEN"
          /\ Live(s)
          /\ IndexOfId(messages, ev.id) # 0
          /\ OnMessage(s, ev))
           => LET i == IndexOfId(messages, ev.id)
                  old == messages[i].sub_processes
                  inc == ev.sub_processes
                  new == messages'[i].sub_processes
                  matches(e, k) == e.id # "null" /\ old[k].id = e.id
                  fresh(e) == \A k \in DOMAIN old : ~matches(e, k)
              IN
              /\ Len(new) = Len(old) + Len(SelectSeq(inc, fresh))
              /\ \A k \in DOMAIN old :
                    /\ new[k].id = old[k].id
                    /\ new[k].content =
                          IF \E j \in DOMAIN inc : matches(inc[j], k)
                          THEN inc[CHOOSE j \in DOMAIN inc :
                                       matches(inc[j], k)].content
                          ELSE old[k].content
              /\ SubSeq(new, Len(old) + 1, Len(new)) = SelectSeq(inc, fresh)]_vars

\* a recorded list longer than any snapshot: entry a replaced, b kept
C5_Witness ==
    /\ mounted
    /\ \E i \in DOMAIN messages :
         /\ Len(messages[i].sub_processes) = 3
         /\ messages[i].sub_processes[1].id = "a"
         /\ messages[i].sub_processes[1].content = "y"
         /\ messages[i].sub_processes[2].id = "b"

----------------------------------------------------------------------------
(* Claims about the guideline options *)

HasGuidelineId(doc) == doc.guidelineId # "none"

DedupKey(doc) == IF HasGuidelineId(doc) THEN doc.guidelineId ELSE doc.id

\* C6: the options of getAllGuidelines hold no value twice, and all documents
\* that share one external guideline identifier yield exactly one option.
C6_OptionsDeduplicated ==
    documentsFetch = "done" =>
        /\ \A i, j \in DOMAIN availableGuidelines :
               availableGuidelines[i].value = availableGuidelines[j].value
                   => i = j
        /\ \A d \in Range(availableDocuments) :
               HasGuidelineId(d) =>
                   Cardinality({i \in DOMAIN availableGuidelines :
                       availableGuidelines[i].document.guidelineId
                           = d.guidelineId}) = 1

\* C7: the value of an option is its document's external guideline
\* identifier when it has one and the document identifier otherwise, and the
\* option's document is the first document of the list with that key.
C7_OptionValueIsKey ==
    documentsFetch = "done" =>
        \A i \in DOMAIN availableGuidelines :
            LET o == availableGuidelines[i] IN
            /\ o.value = DedupKey(o.document)
            /\ \E k \in DOMAIN availableDocuments :
                   /\ availableDocuments[k] = o.document
                   /\ \A j \in 1..(k - 1) :
                          DedupKey(availableDocuments[j]) # o.value

----------------------------------------------------------------------------
(* Claims about hydration and transport errors *)

\* the hydration fetch of the conversation open on the page has completed
Hydrated == [inst |-> inst, conv |-> conversationId] \notin fetches

\* C8: no user turn is submitted (no stream opened, no message appended by
\* submit) before the hydration fetch of the open conversation has completed,
\* and that fetch is started once, when the conversation is opened.
C8_HydrationBeforeTurn ==
    [][/\ Len(streams') > Len(streams) => Hydrated
       /\ fetches' \subseteq fetches \/
              (/\ conversationId' # conversationId
               /\ fetches' = fetches \cup
                      {[inst |-> inst, conv |-> conversationId']})]_vars

\* message i of the transcript was appended by submit for the conversation
\* that is open on the page
OwnUserMessage(i) ==
    \E k \in DOMAIN streams :
        /\ messages[i].id = UserIds[k]
        /\ streams[k].inst = inst
        /\ streams[k].conv = conversationId

\* C9: while a conversation stays open on the page, no step (hydration
\* completing, a submission, a stream event) removes from the transcript a
\* message that was appended to it for that conversation.
C9_TranscriptNeverShrinks ==
    [][(mounted /\ mounted' /\ inst' = inst
          /\ conversationId' = conversationId)
         => \A i \in DOMAIN messages :
                OwnUserMessage(i) =>
                    \E j \in DOMAIN messages' :
                        messages'[j].id = messages[i].id]_vars

\* C10: when the stream of the page fails to open or ends before a SUCCESS
\* or ERROR event, the page eventually accepts a submission again: the
\* pending flag that disables the input and the Send button is cleared.
C10_RetryAfterTransportError ==
    (\E s \in DOMAIN streams : Live(s) /\ StreamBroken(s) /\ isMessagePending)
        ~> ~(mounted /\ isMessagePending)

----------------------------------------------------------------------------
(* Claims about stale events and failed fetches *)

\* the conversation an event of stream s belongs to: the one its URL names
EventConv(s) == streams[s].conv

\* C11: an event of a conversation other than the one open on the page is
\* discarded: it changes neither the transcript nor the pending flag.
C11_StaleEventDiscarded ==
    [][\A s \in DOMAIN streams : \A ev \in Events :
         (/\ mounted
          /\ EventConv(s) # conversationId
          /\ OnMessage(s, ev))
           => /\ messages' = messages
              /\ isMessagePending' = isMessagePending]_vars

\* C12: when fetchConversation fails the user is redirected to the home
\* page (the conversation page is no longer shown), and the failed hydration
\* puts nothing into the transcript or the selected document set.
C12_FailedHydrationRedirects ==
    [][\A f \in fetches :
         FetchFail(f) =>
            /\ ~mounted'
            /\ Range(messages') \subseteq Range(messages)
            /\ Range(selectedDocuments') \subseteq Range(selectedDocuments)]_vars

\* a hydration failed and no conversation page is shown
C12_Witness ==
    /\ "Failed to fetch conversation:" \in consoleErrors
    /\ ~mounted
    /\ inst = 1
    /\ streams # <<>>

\* what the landing page can show of the selector: the values the hook
\* returns (the console is not part of it)
SelectorView ==
    [availableGuidelines |-> availableGuidelines,
     selectedGuideline |-> selectedGuideline,
     availableDocuments |-> availableDocuments,
     isLoading |-> isLoading]

\* the view after fetchDocuments resolved with no documents
EmptyFetchView ==
    [availableGuidelines |-> getAllGuidelines(<<>>),
     selectedGuideline |-> [present |-> FALSE],
     availableDocuments |-> <<>>,
     isLoading |-> FALSE]

\* C13: after fetchDocuments failed, the selector is in a state the user
\* can tell from a successful fetch of zero documents.
C13_FetchFailureVisible ==
    documentsFetch = "failed" => SelectorView # EmptyFetchView

----------------------------------------------------------------------------
(* The landing page: TitleAndDropdown *)

MaxCreates == 3

HasDocument(option) == "document" \in DOMAIN option

\* the list handleSubmit passes to createConversation: empty when nothing
\* usable is selected
selectedGuidelineIds ==
    IF /\ selectedGuideline.present
       /\ HasDocument(selectedGuideline.option)
       /\ selectedGuideline.option.document.id # ""
    THEN <<selectedGuideline.option.document.id>>
    ELSE <<>>

\* a handler that sends whatever list it computed
handleSubmitSendsAnyway(version) ==
    /\ Len(createCalls) < MaxCreates
    /\ isLoadingConversation' = TRUE
    /\ createCalls' = Append(createCalls,
           [documentIds |-> selectedGuidelineIds, status |-> "pending"])
    /\ UNCHANGED consoleErrors
    /\ UNCHANGED <<pageVars, selVars, utilVars>>

\* handleSubmit of the first (version 1) and of the second (version 2)
\* definition of TitleAndDropdown; they differ in what they log
handleSubmit(version) ==
    /\ IF ~selectedGuideline.present
          \/ ~HasDocument(selectedGuideline.option)
       THEN /\ isLoadingConversation' = FALSE
            /\ consoleErrors' = consoleErrors \cup {"No guideline selected"}
            /\ UNCHANGED createCalls
       ELSE IF selectedGuideline.option.document.id = ""
       THEN /\ isLoadingConversation' = FALSE
            /\ consoleErrors' = consoleErrors \cup
                   {IF version = 1
                    THEN "Selected guideline has no document ID"
                    ELSE "No guideline selected"}
            /\ UNCHANGED createCalls
       ELSE /\ Len(createCalls) < MaxCreates
            /\ isLoadingConversation' = TRUE
            /\ createCalls' = Append(createCalls,
                   [documentIds |-> selectedGuidelineIds,
                    status |-> "pending"])
            /\ UNCHANGED consoleErrors
    /\ UNCHANGED <<pageVars, selVars, utilVars>>

\* the button, disabled={!selectedGuideline || isLoadingConversation}
ClickStartConversation ==
    /\ selectedGuideline.present
    /\ ~isLoadingConversation
    /\ \E version \in {1, 2} : handleSubmit(version)

\* createConversation resolved: .then sets the flag and starts router.push
CreateResolved(k) ==
    /\ createCalls[k].status = "pending"
    /\ isLoadingConversation' = FALSE
    /\ createCalls' = [createCalls EXCEPT ![k].status = "navigating"]
    /\ UNCHANGED consoleErrors
    /\ UNCHANGED <<pageVars, selVars, utilVars>>

\* createConversation rejected: the outer .catch
CreateRejected(k) ==
    /\ createCalls[k].status = "pending"
    /\ isLoadingConversation' = FALSE
    /\ createCalls' = [createCalls EXCEPT ![k].status = "rejected"]
    /\ consoleErrors' = consoleErrors \cup {"Error creating conversation:"}
    /\ UNCHANGED <<pageVars, selVars, utilVars>>

\* router.push resolved
NavigationOk(k) ==
    /\ createCalls[k].status = "navigating"
    /\ createCalls' = [createCalls EXCEPT ![k].status = "navigated"]
    /\ UNCHANGED <<isLoadingConversation, consoleErrors>>
    /\ UNCHANGED <<pageVars, selVars, utilVars>>

\* router.push rejected: the inner .catch
NavigationRejected(k) ==
    /\ createCalls[k].status = "navigating"
    /\ isLoadingConversation' = FALSE
    /\ createCalls' = [createCalls EXCEPT ![k].status = "navfailed"]
    /\ consoleErrors' = consoleErrors \cup
           {"Error navigating to conversation:"}
    /\ UNCHANGED <<pageVars, selVars, utilVars>>

\* options the Select can hand to handleGuidelineChange besides those built
\* by createGuidelineOption: a document without identifier, and (second
\* definition, newValue as SelectOption) an option without document
OddOptions ==
    {[value |-> "", label |-> <<"T", " - ", "O">>,
      document |-> [id |-> "", title |-> "T", issuingOrganization |-> "O",
                    guidelineId |-> "none",
                    documentType |-> "clinical_guideline"]],
     [value |-> "x", label |-> <<"x">>]}

\* the handler called in any state of the page
HandlerNext ==
    \/ \E documents \in {<<>>, <<ConvDoc>>} : FetchDocumentsOk(documents)
    \/ FetchDocumentsFail
    \/ \E g \in Range(availableGuidelines) \cup OddOptions :
           handleGuidelineChange(g)
    \/ \E version \in {1, 2} : handleSubmit(version)
    \/ \E k \in DOMAIN createCalls : CreateResolved(k)
    \/ \E k \in DOMAIN createCalls : CreateRejected(k)
    \/ \E k \in DOMAIN createCalls : NavigationOk(k)
    \/ \E k \in DOMAIN createCalls : NavigationRejected(k)

HandlerSpec == Init /\ [][HandlerNext]_vars

\* the landing page as a user drives it: handleSubmit runs only from a click
\* on the enabled button
LandingNext ==
    \/ \E documents \in {<<>>, <<ConvDoc>>} : FetchDocumentsOk(documents)
    \/ FetchDocumentsFail
    \/ \E g \in Range(availableGuidelines) \cup OddOptions :
           handleGuidelineChange(g)
    \/ ClickStartConversation
    \/ \E k \in DOMAIN createCalls : CreateResolved(k)
    \/ \E k \in DOMAIN createCalls : CreateRejected(k)
    \/ \E k \in DOMAIN createCalls : NavigationOk(k)
    \/ \E k \in DOMAIN createCalls : NavigationRejected(k)

LandingSpec == Init /\ [][LandingNext]_vars

\* C14: createConversation is never called with an empty list of document
\* identifiers, and a run of handleSubmit with no guideline selected, or
\* with a selected guideline whose document has no identifier, makes no
\* backend call, starts no navigation and leaves the selection as it was.
C14_NoEmptyCreate ==
    /\ [](\A k \in DOMAIN createCalls :
            /\ createCalls[k].documentIds # <<>>
            /\ \A i \in DOMAIN createCalls[k].documentIds :
                   createCalls[k].documentIds[i] # "")
    /\ [][\A version \in {1, 2} :
            (selectedGuidelineIds = <<>> /\ handleSubmit(version))
               => /\ createCalls' = createCalls
                  /\ selVars' = selVars
                  /\ ~isLoadingConversation']_vars

\* handleSubmit ran with nothing usable selected, and ran with a guideline
C14_Witness ==
    /\ "No guideline selected" \in consoleErrors
    /\ "Selected guideline has no document ID" \in consoleErrors
    /\ Len(createCalls) = 1

----------------------------------------------------------------------------
(* The viewport of a ViewPdf: the operations ViewPdf takes from             *)
(* usePDFViewer and hands to the options bar and to the rendering surface. *)
(* numPages = 0: the page count is not known yet.                          *)

MaxPages == 10

PageCounts == {1, 2, MaxPages}
PageRequests == {-5, 0, 1, 999}

Clamp(i, n) == IF i < 0 THEN 0 ELSE IF i > n - 1 THEN n - 1 ELSE i

\* a goToPage that trusts its caller
goToPageUnclamped(v, i) == [v EXCEPT !.scrolledIndex = i]

\* clamps i into the known range; queued (the latest wins) while the page
\* count is unknown
goToPage(v, i) ==
    IF v.numPages = 0
    THEN [v EXCEPT !.pendingPage = i]
    ELSE [v EXCEPT !.scrolledIndex = Clamp(i, v.numPages)]

nextPage(v) ==
    IF v.scrolledIndex < v.numPages - 1
    THEN [v EXCEPT !.scrolledIndex = @ + 1]
    ELSE v

prevPage(v) ==
    IF v.scrolledIndex > 0
    THEN [v EXCEPT !.scrolledIndex = @ - 1]
    ELSE v

\* setPageCount: records the page count, applies a queued request and
\* clamps the page index into range
setNumPages(v, n) ==
    [v EXCEPT !.numPages = n,
              !.pendingPage = NoPage,
              !.scrolledIndex = Clamp(IF v.pendingPage # NoPage
                                      THEN v.pendingPage
                                      ELSE v.scrolledIndex, n)]

\* the rendering surface reports the page the user scrolled to
setCurrentPageNumber(v, n) == [v EXCEPT !.scrolledIndex = n]

setScaleFit(v, fit) == [v EXCEPT !.scaleFit = fit]

\* the pages the rendering surface of viewport v can report as visible
VisiblePages(v) ==
    IF v.numPages = 0 THEN {0} ELSE {0, v.numPages - 1}

\* the ViewPdf with key k applies op to its own hook state
ViewportStep(k, after) ==
    /\ mounted
    /\ k \in DOMAIN viewports
    /\ after # viewports[k]
    /\ viewports' = [viewports EXCEPT ![k] = after]
    /\ UNCHANGED <<mounted, inst, conversationId, isMessagePending,
                   userMessage, selectedDocuments, messages, fetches,
                   streams, seen>>
    /\ UNCHANGED <<selVars, landVars, utilVars, consoleErrors>>

SetNumPages(k, n) == ViewportStep(k, setNumPages(viewports[k], n))
GoToPage(k, i) == ViewportStep(k, goToPage(viewports[k], i))
NextPage(k) == ViewportStep(k, nextPage(viewports[k]))
PrevPage(k) == ViewportStep(k, prevPage(viewports[k]))
ScrollTo(k, n) == ViewportStep(k, setCurrentPageNumber(viewports[k], n))
SetScaleFit(k, fit) == ViewportStep(k, setScaleFit(viewports[k], fit))

SecondDoc == [ConvDoc EXCEPT !.id = "d2"]

\* hydrations that change the set of documents shown
ViewerResults ==
    {[hasMessages |-> FALSE, messages |-> <<>>,
      hasDocuments |-> TRUE, documents |-> d] :
        d \in {<<>>, <<ConvDoc>>, <<SecondDoc>>, <<ConvDoc, SecondDoc>>}}

ViewerNext ==
    \/ \E c \in ConvIds : RouteId(c)
    \/ \E f \in fetches : \E r \in ViewerResults : FetchOk(f, r)
    \/ \E k \in DOMAIN viewports : \E n \in PageCounts : SetNumPages(k, n)
    \/ \E k \in DOMAIN viewports : \E i \in PageRequests : GoToPage(k, i)
    \/ \E k \in DOMAIN viewports : NextPage(k)
    \/ \E k \in DOMAIN viewports : PrevPage(k)
    \/ \E k \in DOMAIN viewports :
           \E n \in VisiblePages(viewports[k]) : ScrollTo(k, n)
    \/ \E k \in DOMAIN viewports : \E fit \in BOOLEAN : SetScaleFit(k, fit)

ViewerSpec == Init /\ [][ViewerNext]_vars

\* C15: once the page count of a viewport is known its page index is within
\* [0, numPages - 1]; goToPage with an index out of range lands on the
\* nearest bound, and nextPage / prevPage at a bound change nothing.
C15_PageIndexInRange ==
    /\ [](\A k \in DOMAIN viewports :
            viewports[k].numPages # 0 =>
                /\ 0 <= viewports[k].scrolledIndex
                /\ viewports[k].scrolledIndex <= viewports[k].numPages - 1)
    /\ [][\A k \in DOMAIN viewports :
            LET v == viewports[k] IN
            v.numPages # 0 =>
               /\ \A i \in PageRequests :
                     GoToPage(k, i) =>
                        viewports'[k].scrolledIndex =
                           IF i < 0 THEN 0
                           ELSE IF i >= v.numPages THEN v.numPages - 1
                           ELSE i
               /\ v.scrolledIndex = v.numPages - 1 => ~NextPage(k)
               /\ v.scrolledIndex = 0 => ~PrevPage(k)]_vars

\* goToPage(999) on a 10-page document landed on page 9
C15_Witness ==
    \E k \in DOMAIN viewports :
        /\ viewports[k].numPages = MaxPages
        /\ viewports[k].scrolledIndex = MaxPages - 1
        /\ viewports[k].pendingPage = NoPage

----------------------------------------------------------------------------
(* Utility functions of api/utils/documents, called on their own *)

\* a string argument or field that is undefined
Undefined == "undefined"

Falsy(x) == x = "" \/ x = Undefined

Conditions == {Undefined, "", "c1", "c2"}
DocTypeArgs == {"clinical_guideline", "other"}

CondDocs ==
    [id : {"d1", "d2"}, condition : {Undefined, "", "c1"},
     documentType : DocTypeArgs]

\* a filter without the guard on the condition
filterByConditionAndTypeNoGuard(condition, docType, documents) ==
    LET keeps(document) == /\ document.condition = condition
                           /\ document.documentType = docType
    IN SelectSeq(documents, keeps)

filterByConditionAndType(condition, docType, documents) ==
    IF Falsy(condition)
    THEN <<>>
    ELSE LET keeps(document) == /\ document.condition = condition
                                /\ document.documentType = docType
         IN SelectSeq(documents, keeps)

FilterInit ==
    /\ InitPages
    /\ utilCall \in
         [fn : {"filterByConditionAndType"}, condition : Conditions,
          docType : DocTypeArgs, documents : SeqsUpTo(CondDocs, MaxDocs),
          done : {FALSE}, result : {<<>>}]

CallFilterByConditionAndType ==
    /\ utilCall.fn = "filterByConditionAndType"
    /\ ~utilCall.done
    /\ utilCall' = [utilCall EXCEPT
           !.done = TRUE,
           !.result = filterByConditionAndType(utilCall.condition,
                          utilCall.docType, utilCall.documents)]
    /\ UNCHANGED <<pageVars, selVars, landVars, consoleErrors>>

FilterSpec == FilterInit /\ [][CallFilterByConditionAndType]_vars

\* C16: filterByConditionAndType returns the empty list when the condition
\* is empty or absent; otherwise it returns exactly the documents whose
\* condition and document type equal the arguments, in their input order.
C16_FilterByConditionAndType ==
    (utilCall.fn = "filterByConditionAndType" /\ utilCall.done) =>
        LET c == utilCall
            hits == {i \in DOMAIN c.documents :
                        /\ c.documents[i].condition = c.condition
                        /\ c.documents[i].documentType = c.docType}
            rank(i) == Cardinality({h \in hits : h <= i})
        IN IF c.condition \in {"", Undefined}
           THEN c.result = <<>>
           ELSE /\ Len(c.result) = Cardinality(hits)
                /\ \A i \in hits : c.result[rank(i)] = c.documents[i]

\* a call that kept the second of two documents
C16_Witness ==
    /\ utilCall.fn = "filterByConditionAndType"
    /\ utilCall.done
    /\ Len(utilCall.documents) = 2
    /\ utilCall.result = <<utilCall.documents[2]>>

----------------------------------------------------------------------------
(* getAllGuidelines called on its own *)

TitledDocs ==
    [id : DocIds, title : {"A", "B"}, issuingOrganization : {"O"},
     guidelineId : {"none", "g1"}, documentType : DocumentType]

\* rows of the backend: no id twice
TitledDocLists ==
    {l \in SeqsUpTo(TitledDocs, MaxDocs) :
        \A i, j \in DOMAIN l : l[i].id = l[j].id => i = j}

GuidelinesInit ==
    /\ InitPages
    /\ utilCall \in
         [fn : {"getAllGuidelines"}, documents : TitledDocLists,
          done : {FALSE}, after : {<<>>}, result : {<<>>}]

\* filter and map build new arrays and Array.from a third: the argument is
\* read, never written
CallGetAllGuidelines ==
    /\ utilCall.fn = "getAllGuidelines"
    /\ ~utilCall.done
    /\ utilCall' = [utilCall EXCEPT
           !.done = TRUE,
           !.after = utilCall.documents,
           !.result = getAllGuidelines(utilCall.documents)]
    /\ UNCHANGED <<pageVars, selVars, landVars, consoleErrors>>

GuidelinesSpec == GuidelinesInit /\ [][CallGetAllGuidelines]_vars

\* C17: getAllGuidelines leaves the list it is given as it was, and its
\* options are in the relative order of their documents in that list.
C17_PureAndOrderPreserving ==
    (utilCall.fn = "getAllGuidelines" /\ utilCall.done) =>
        LET c == utilCall
            at(o) == CHOOSE k \in DOMAIN c.documents :
                         c.documents[k] = o.document
        IN /\ c.after = c.documents
           /\ \A i \in DOMAIN c.result :
                  \E k \in DOMAIN c.documents :
                      c.documents[k] = c.result[i].document
           /\ \A i, j \in DOMAIN c.result :
                  i < j => at(c.result[i]) < at(c.result[j])

\* two options returned for a list that is not in label order
C17_Witness ==
    /\ utilCall.fn = "getAllGuidelines"
    /\ utilCall.done
    /\ Len(utilCall.result) = 2
    /\ utilCall.documents[1].title = "B"
    /\ utilCall.documents[2].title = "A"
    /\ utilCall.result[1].document = utilCall.documents[1]

----------------------------------------------------------------------------
(* The stream URL built by submit.  A text is a sequence of characters; a  *)
(* percent escape is one element of an encoded text.                       *)

MaxText == 3

Chars == {"a", " ", "%", "&", "#", "+", "=", "?"}
MessageTexts == SeqsUpTo(Chars, MaxText) \ {<<>>}

\* encodeURI escapes neither the reserved characters ; , / ? : @ & = + $ #
\* nor the unreserved ones; a space and a percent sign are escaped
encodeURIChar(c) ==
    IF c = " " THEN "%20" ELSE IF c = "%" THEN "%25" ELSE c

encodeURI(text) == [i \in DOMAIN text |-> encodeURIChar(text[i])]

\* position of the first c in s, 0 when there is none
FirstIndex(s, c) ==
    IF \E i \in DOMAIN s : s[i] = c
    THEN CHOOSE i \in DOMAIN s : s[i] = c /\ \A j \in 1..(i - 1) : s[j] # c
    ELSE 0

UpTo(s, c) ==
    IF FirstIndex(s, c) = 0 THEN s ELSE SubSeq(s, 1, FirstIndex(s, c) - 1)

After(s, c) ==
    IF FirstIndex(s, c) = 0 THEN <<>>
    ELSE SubSeq(s, FirstIndex(s, c) + 1, Len(s))

\* backendUrl + `api/conversation/${conversationId}/message`
\*            + `?user_message=${encodeURI(userMessage)}`
messageUrl(conv, text) ==
    <<"api/conversation/", ToString(conv), "/message", "?",
      "user_message", "=">>
        \o encodeURI(text)

decodeQueryChar(c) ==
    IF c = "+" \/ c = "%20" THEN " " ELSE IF c = "%25" THEN "%" ELSE c

\* the user_message parameter as the receiver of the request reads it: the
\* fragment is not part of the request, the query starts after the first
\* "?", parameters are separated by "&", a value starts after the first "="
\* and is form-decoded
userMessageParameter(url) ==
    LET request == UpTo(url, "#")
        query == After(request, "?")
        first == UpTo(query, "&")
        value == IF first # <<>> /\ first[1] = "user_message"
                 THEN After(first, "=") ELSE <<>>
    IN [i \in DOMAIN value |-> decodeQueryChar(value[i])]

UrlInit ==
    /\ InitPages
    /\ utilCall \in
         [fn : {"messageUrl"}, conv : ConvIds, text : MessageTexts,
          done : {FALSE}, url : {<<>>}, received : {<<>>}]

CallMessageUrl ==
    /\ utilCall.fn = "messageUrl"
    /\ ~utilCall.done
    /\ utilCall' = [utilCall EXCEPT
           !.done = TRUE,
           !.url = messageUrl(utilCall.conv, utilCall.text),
           !.received =
               userMessageParameter(messageUrl(utilCall.conv, utilCall.text))]
    /\ UNCHANGED <<pageVars, selVars, landVars, consoleErrors>>

UrlSpec == UrlInit /\ [][CallMessageUrl]_vars

\* C18: decoding the user_message parameter of the URL built by submit gives
\* back exactly the text the user submitted.
C18_UrlRoundTrip ==
    (utilCall.fn = "messageUrl" /\ utilCall.done) =>
        utilCall.received = utilCall.text

\* the identifiers of the documents shown
ActiveSet(documents) == {documents[i].id : i \in DOMAIN documents}

----------------------------------------------------------------------------
(* The pending flag *)

\* C20: while the conversation page is shown, isMessagePending is false only
\* if no stream opened by submit is still open.
C20_PendingWhileStreamOpen ==
    (mounted /\ ~isMessagePending) =>
        \A s \in DOMAIN streams : ~StreamOpen(s)

----------------------------------------------------------------------------
(* Claims about submit *)

\* C21: submit appends the user's message, with the text it sends in the
\* stream URL, before it opens the stream, and every assistant message that
\* the stream of a turn adds to the transcript comes after that turn's user
\* message.
C21_UserMessageFirst ==
    [][/\ Len(streams') > Len(streams) =>
            LET k == Len(streams')
                last == messages'[Len(messages')] IN
            /\ Len(messages') = Len(messages) + 1
            /\ last.id = UserIds[k]
            /\ last.role = "user"
            /\ last.content = userMessage
            /\ streams'[k].user_message = userMessage
       /\ \A s \in DOMAIN streams : \A ev \in Events :
            (/\ streams[s].readyState = "OPEN"
             /\ Live(s)
             /\ IndexOfId(messages, ev.id) = 0
             /\ OnMessage(s, ev))
              => \E i \in DOMAIN messages :
                     /\ messages'[i].id = UserIds[s]
                     /\ i < IndexOfId(messages', ev.id)]_vars

\* C22: submit does nothing when the input text is empty or no conversation
\* identifier is set: a stream is opened and a user message appended only
\* from a state with text and a conversation identifier, and a call of
\* submit in any other state leaves the streams, the transcript, the
\* pending flag and the input text as they were.
C22_SubmitNoOp ==
    [][/\ Len(streams') > Len(streams) =>
            userMessage # "" /\ conversationId # NoConv
       /\ (\E i \in DOMAIN messages' :
               messages'[i].role = "user" /\ messages'[i].content = "")
            => \E i \in DOMAIN messages :
                   messages[i].role = "user" /\ messages[i].content = ""
       /\ ((userMessage = "" \/ conversationId = NoConv)
             /\ (ClickSend \/ TextareaEnter \/ DocumentEnter))
            => /\ streams' = streams
               /\ messages' = messages
               /\ isMessagePending' = isMessagePending
               /\ userMessage' = userMessage]_vars

\* Enter can be pressed with text typed while no conversation identifier is
\* set, and a turn was submitted once one was
C22_Witness ==
    /\ mounted
    /\ ~isMessagePending
    /\ userMessage # ""
    /\ conversationId = NoConv

(* Claims about the landing page's handleSubmit *)
InFlight == {k \in DOMAIN createCalls : createCalls[k].status = "pending"}

RunsOver ==
    \A k \in DOMAIN createCalls :
        createCalls[k].status \in {"rejected", "navigated", "navfailed"}

\* C23: once every run of handleSubmit has reached its outcome
\* isLoadingConversation is false; while a createConversation call is in
\* flight the flag is true, so the button is disabled; and at most one
\* createConversation call is in flight.
C23_OneCreateInFlight ==
    /\ RunsOver => ~isLoadingConversation
    /\ InFlight # {} => isLoadingConversation
    /\ Cardinality(InFlight) <= 1

(* Claims about the selector's selectedDocuments *)
\* C24: selectedDocuments of useDocumentSelector is empty while no guideline
\* is selected; otherwise its members are exactly the available
\* clinical-guideline documents whose guideline identifier or document
\* identifier equals the selected option's value, they stand in their
\* available order, and the selected option's document is among them.
C24_SelectedDocuments ==
    LET result == useDocumentSelector_selectedDocuments
        wanted == {i \in DOMAIN availableDocuments :
                      /\ availableDocuments[i].documentType
                             = "clinical_guideline"
                      /\ selectedGuideline.option.value
                             \in {availableDocuments[i].guidelineId,
                                  availableDocuments[i].id}}
    IN IF ~selectedGuideline.present
       THEN result = <<>>
       ELSE /\ Len(result) = Cardinality(wanted)
            /\ Range(result) = {availableDocuments[i] : i \in wanted}
            /\ \A a, b \in DOMAIN result : a < b =>
                   \E i, j \in wanted :
                       /\ i < j
                       /\ availableDocuments[i] = result[a]
                       /\ availableDocuments[j] = result[b]
            /\ selectedGuideline.option.document \in Range(result)

\* a guideline is selected, its document is kept and another available
\* document is left out
C24_Witness ==
    /\ selectedGuideline.present
    /\ selectedGuideline.option.document
           \in Range(useDocumentSelector_selectedDocuments)
    /\ Len(useDocumentSelector_selectedDocuments) < Len(availableDocuments)

----------------------------------------------------------------------------
(* fromBackendDocumentToFrontend, called on its own *)

\* ClinicalGuideline; of its optional fields guideline_id stands for all
ClinicalGuidelines ==
    [title : {"T"}, issuing_organization : {"O"},
     guideline_id : {Undefined, "g1"}]

\* BackendMetadataMap: the optional clinical_guideline is a sequence of
\* length 0 (absent or null) or 1
BackendMetadataMaps ==
    [clinical_guideline : {<<>>} \cup {<<g>> : g \in ClinicalGuidelines}]

\* BackendDocument: metadata_map is a sequence of length 0 (null, which the
\* filter's ?. allows for) or 1
BackendDocuments ==
    [id : {"d1", "d2"}, url : {"u1", "u2"},
     metadata_map : {<<>>} \cup {<<m>> : m \in BackendMetadataMaps}]

\* !!doc.metadata_map?.clinical_guideline
hasClinicalGuideline(doc) ==
    /\ doc.metadata_map # <<>>
    /\ doc.metadata_map[1].clinical_guideline # <<>>

\* the body of the .map callback
toClinicalDocument(doc) ==
    LET metadata == doc.metadata_map[1].clinical_guideline[1] IN
    [id |-> doc.id,
     title |-> metadata.title,
     issuingOrganization |-> metadata.issuing_organization,
     guidelineId |-> metadata.guideline_id,
     documentType |-> "clinical_guideline",
     url |-> doc.url]

\* a conversion that maps every backend document, with or without metadata
fromBackendDocumentToFrontendKeepAll(backendDocuments) ==
    [i \in DOMAIN backendDocuments |->
        IF hasClinicalGuideline(backendDocuments[i])
        THEN toClinicalDocument(backendDocuments[i])
        ELSE [id |-> backendDocuments[i].id,
              title |-> Undefined,
              issuingOrganization |-> Undefined,
              guidelineId |-> Undefined,
              documentType |-> "clinical_guideline",
              url |-> backendDocuments[i].url]]

fromBackendDocumentToFrontend(backendDocuments) ==
    LET filtered == SelectSeq(backendDocuments, hasClinicalGuideline)
    IN [i \in DOMAIN filtered |-> toClinicalDocument(filtered[i])]

ConvertInit ==
    /\ InitPages
    /\ utilCall \in
         [fn : {"fromBackendDocumentToFrontend"},
          backendDocuments : SeqsUpTo(BackendDocuments, MaxDocs),
          done : {FALSE}, result : {<<>>}]

CallFromBackendDocumentToFrontend ==
    /\ utilCall.fn = "fromBackendDocumentToFrontend"
    /\ ~utilCall.done
    /\ utilCall' = [utilCall EXCEPT
           !.done = TRUE,
           !.result = fromBackendDocumentToFrontend(utilCall.backendDocuments)]
    /\ UNCHANGED <<pageVars, selVars, landVars, consoleErrors>>

ConvertSpec == ConvertInit /\ [][CallFromBackendDocumentToFrontend]_vars

\* C25: fromBackendDocumentToFrontend keeps exactly the backend documents
\* that carry clinical_guideline metadata, in their input order, each with
\* its id and url unchanged and document type CLINICAL_GUIDELINE; documents
\* without that metadata are dropped, so the output is never longer than
\* the input.
C25_KeepsGuidelineDocuments ==
    (utilCall.fn = "fromBackendDocumentToFrontend" /\ utilCall.done) =>
        LET input == utilCall.backendDocuments
            output == utilCall.result
            carriers == {i \in DOMAIN input :
                            /\ Len(input[i].metadata_map) = 1
                            /\ Len(input[i].metadata_map[1]
                                       .clinical_guideline) = 1}
            \* the input position of the k-th carrier
            nth(k) == CHOOSE i \in carriers :
                          Cardinality({j \in carriers : j <= i}) = k
        IN /\ Len(output) = Cardinality(carriers)
           /\ Len(output) <= Len(input)
           /\ \A k \in DOMAIN output :
                  /\ output[k].id = input[nth(k)].id
                  /\ output[k].url = input[nth(k)].url
                  /\ output[k].documentType = "clinical_guideline"

\* a call that kept a document standing behind a dropped one
C25_Witness ==
    /\ utilCall.fn = "fromBackendDocumentToFrontend"
    /\ utilCall.done
    /\ Len(utilCall.backendDocuments) = 2
    /\ Len(utilCall.result) = 1
    /\ utilCall.result[1].id = utilCall.backendDocuments[2].id
    /\ utilCall.backendDocuments[1].id # utilCall.backendDocuments[2].id

====
